---- MODULE Spec2Model ----
(***************************************************************************)
(* State-machine model of the staking contract                             *)
(* (contracts/staking_contract/src/contract.rs, msg.rs).                   *)
(*                                                                         *)
(* The contract's storage is the item STATE (variable state), the map      *)
(* STAKES (variable stakes: address -> Uint128) and the cw2                *)
(* contract-version record.  One action                                    *)
(* models one call of an entry point (instantiate, execute, query); the    *)
(* value the call returns is kept in `res`, the call itself in `last`.     *)
(***************************************************************************)
EXTENDS Integers, Sequences, FiniteSets, TLC

VARIABLES
    state,          \* STATE, Item<State>: <<>> when absent, else <<[count, owner]>>
    stakes,         \* STAKES, Map<&Addr, Uint128>: a function whose domain is the set of stored keys
    contract_info,  \* cw2 contract-version record: <<>> when absent, else <<[contract, version]>>
    res,            \* what the last call returned
    last,           \* the last call: entry point, message and MessageInfo
    total_staked,   \* history: sum of the amounts of all successful Stake calls
    total_unstaked, \* history: sum of the amounts of all successful Unstake calls
    token_attached, \* history: amount of "token" attached to successful Stake calls,
                    \* counted up to MaxStaked (total_unstaked never exceeds that)
    audit_funds     \* whether this run keeps the history token_attached

vars == <<state, stakes, contract_info, res, last, total_staked, total_unstaked, token_attached, audit_funds>>

----------------------------------------------------------------------------
(* Bounds of the model *)

\* Stand-in for Uint128::MAX: amounts are 0..U128Max and `+` overflows above it.
U128Max == 2
\* Largest number of fund entries attached to a call.
MaxFunds == 2
\* Increments explored above each counter value a message can set.
MaxIncrements == 1
\* Cap on the history counter total_staked.
MaxStaked == 3

(* Program constants *)
I32Max == 2147483647
I32Min == -I32Max - 1

CONTRACT_NAME == "crates.io:staking_contract"
CONTRACT_VERSION == "CARGO_PKG_VERSION"

None == "None"

----------------------------------------------------------------------------
(* Inputs *)

\* Validated account addresses (info.sender is always one of them).
Addrs == {"creator", "anyone", "staker1"}
\* Strings a query may carry: the addresses and one string addr_validate rejects.
BadAddress == "not an address"
AddressStrings == Addrs \cup {BadAddress}

\* i32 values carried by InstantiateMsg and ExecuteMsg::Reset.
CountInputs == {I32Min, 17, I32Max}
\* Uint128 values carried by Stake, Unstake and Coin.
Amounts == 0..U128Max
Coin(denom, amount) == [denom |-> denom, amount |-> amount]
\* info.funds: nothing, one entry of the staking denomination, one entry of
\* another denomination, or several entries.
FundsInputs ==
    {<<>>} \cup {<<Coin("token", a)>> : a \in Amounts}
           \cup {<<Coin("earth", U128Max)>>}
           \cup (IF MaxFunds >= 2 THEN {<<Coin("earth", 1), Coin("token", U128Max)>>} ELSE {})
           \cup (IF MaxFunds >= 3
                 THEN {<<Coin("token", 1)>> \o [i \in 1..(MaxFunds - 1) |-> Coin("earth", 1)]}
                 ELSE {})

----------------------------------------------------------------------------
(* Errors (error.rs is ContractError; the Std variants carry the message) *)

Ok == "Ok"
Unauthorized == "Unauthorized"
InsufficientFunds == "Insufficient funds sent for staking"
InvalidAmount == "Stake amount must be greater than zero"
InsufficientBalance == "Cannot unstake more than your current balance"
NotInitialized == "NotFound"
InvalidAddress == "InvalidAddress"
\* The call aborted (arithmetic overflow): nothing is returned, nothing is written.
Panic == "panic"

----------------------------------------------------------------------------
(* Storage and Option helpers, as the handlers use them *)

\* Option::unwrap_or
unwrap_or(opt, default) == IF opt = <<>> THEN default ELSE opt[1]

\* Map::may_load: Some(value) when the key is stored, None otherwise
may_load(map, key) == IF key \in DOMAIN map THEN <<map[key]>> ELSE <<>>

save_clobbers(map, key, value) == [k \in {key} |-> value]

\* Map::save: upsert
save(map, key, value) == [k \in DOMAIN map \cup {key} |-> IF k = key THEN value ELSE map[k]]

remove_keeps_zero(map, key) == [k \in DOMAIN map \cup {key} |-> IF k = key THEN 0 ELSE map[k]]

\* Map::remove: delete the key (no effect when absent)
remove(map, key) == [k \in DOMAIN map \ {key} |-> map[k]]

\* Response::new().add_attribute(...)...: the attributes in order, and the messages
Response(attributes, messages) == [attributes |-> attributes, messages |-> messages]

\* Uint128::to_string / i32::to_string
to_string(n) == ToString(n)

\* What a call returned: err = Ok with the response, or the error and nothing else.
Return(err, attributes, messages, data) ==
    res' = [err |-> err, attributes |-> attributes, messages |-> messages, data |-> data]

Call(op, sender, funds, count, amount, address) ==
    last' = [op |-> op, sender |-> sender, funds |-> funds, count |-> count,
             amount |-> amount, address |-> address]

\* A failing or aborted call writes nothing.
NoWrite == UNCHANGED <<state, stakes, contract_info, total_staked, total_unstaked, token_attached, audit_funds>>

----------------------------------------------------------------------------
(* instantiate *)

instantiate(sender, funds, count) ==
    /\ Call("instantiate", sender, funds, count, 0, "")
    /\ state' = <<[count |-> count, owner |-> sender]>>
    /\ contract_info' = <<[contract |-> CONTRACT_NAME, version |-> CONTRACT_VERSION]>>
    /\ Return(Ok, <<<<"method", "instantiate">>, <<"owner", sender>>,
                    <<"count", to_string(count)>>>>, <<>>, "")
    /\ UNCHANGED <<stakes, total_staked, total_unstaked, token_attached, audit_funds>>

----------------------------------------------------------------------------
(* execute::increment *)

\* The counter may still be incremented within the model's bounds.
IncrementInBounds(c) ==
    \E i \in CountInputs, d \in 0..(MaxIncrements - 1) : i <= I32Max - d /\ c = i + d

wrapping_increment_by_two(c) == IF c >= I32Max - 1 THEN I32Min ELSE c + 2

\* state.count += 1 on an i32 without overflow checks
wrapping_increment(c) == IF c = I32Max THEN I32Min ELSE c + 1

\* overflow_checks: whether the build traps i32 overflow (debug builds, or
\* overflow-checks = true in the release profile) or wraps.
increment(sender, overflow_checks) ==
    /\ Call("increment", sender, <<>>, 0, 0, "")
    /\ IF state = <<>>
       THEN Return(NotInitialized, <<>>, <<>>, "") /\ NoWrite
       ELSE /\ IncrementInBounds(state[1].count)
            /\ IF state[1].count = I32Max /\ overflow_checks
               THEN Return(Panic, <<>>, <<>>, "") /\ NoWrite
               ELSE /\ state' = <<[state[1] EXCEPT !.count = wrapping_increment(@)]>>
                    /\ Return(Ok, <<<<"action", "increment">>>>, <<>>, "")
                    /\ UNCHANGED <<stakes, contract_info, total_staked, total_unstaked, token_attached, audit_funds>>

----------------------------------------------------------------------------
(* execute::reset *)

reset_authorized_anyone(sender, st) == TRUE

\* the negation of `info.sender != state.owner`
reset_authorized(sender, st) == sender = st.owner

reset_count_dropped(st, count) == st

\* state.count = count
reset_count(st, count) == [st EXCEPT !.count = count]

reset_write_before_check(sender, count) ==
    /\ Call("reset", sender, <<>>, count, 0, "")
    /\ IF state = <<>>
       THEN Return(NotInitialized, <<>>, <<>>, "") /\ NoWrite
       ELSE /\ state' = <<reset_count(state[1], count)>>
            /\ IF ~reset_authorized(sender, state[1])
               THEN Return(Unauthorized, <<>>, <<>>, "")
               ELSE Return(Ok, <<<<"action", "reset">>>>, <<>>, "")
            /\ UNCHANGED <<stakes, contract_info, total_staked, total_unstaked, token_attached, audit_funds>>

reset(sender, count) ==
    /\ Call("reset", sender, <<>>, count, 0, "")
    /\ IF state = <<>>
       THEN Return(NotInitialized, <<>>, <<>>, "") /\ NoWrite
       ELSE IF ~reset_authorized(sender, state[1])
       THEN Return(Unauthorized, <<>>, <<>>, "") /\ NoWrite
       ELSE /\ state' = <<reset_count(state[1], count)>>
            /\ Return(Ok, <<<<"action", "reset">>>>, <<>>, "")
            /\ UNCHANGED <<stakes, contract_info, total_staked, total_unstaked, token_attached, audit_funds>>

----------------------------------------------------------------------------
(* execute::stake *)

\* The amount of the staking denomination among the attached funds.
RECURSIVE tokens_in(_)
tokens_in(funds) ==
    IF funds = <<>> THEN 0
    ELSE (IF Head(funds).denom = "token" THEN Head(funds).amount ELSE 0) + tokens_in(Tail(funds))

\* The history of attached "token", counted up to MaxStaked, in a run that keeps it.
attach(attached, funds) ==
    IF ~audit_funds THEN attached
    ELSE IF attached + tokens_in(funds) > MaxStaked THEN MaxStaked
    ELSE attached + tokens_in(funds)

insufficient_funds_only_empty(funds, amount) == funds = <<>>

\* info.funds.is_empty() || info.funds[0].amount < amount
insufficient_funds(funds, amount) == funds = <<>> \/ funds[1].amount < amount

is_zero_never(amount) == FALSE

\* amount.is_zero()
is_zero(amount) == amount = 0

stake_balance_overwrite(balance, amount) == amount

\* balance.unwrap_or(Uint128::zero()) + amount, before the overflow check of Uint128's `+`
stake_balance(balance, amount) == unwrap_or(balance, 0) + amount

stake_credits_attached(sender, funds, amount) ==
    /\ Call("stake", sender, funds, 0, amount, "")
    /\ IF insufficient_funds(funds, amount)
       THEN Return(InsufficientFunds, <<>>, <<>>, "") /\ NoWrite
       ELSE IF is_zero(amount)
       THEN Return(InvalidAmount, <<>>, <<>>, "") /\ NoWrite
       ELSE IF stake_balance(may_load(stakes, sender), funds[1].amount) > U128Max
       THEN Return(Panic, <<>>, <<>>, "") /\ NoWrite
       ELSE /\ total_staked + amount <= MaxStaked
            /\ stakes' = save(stakes, sender, stake_balance(may_load(stakes, sender), funds[1].amount))
            /\ total_staked' = total_staked + amount
            /\ token_attached' = attach(token_attached, funds)
            /\ Return(Ok, <<<<"action", "stake">>, <<"staker", sender>>,
                            <<"amount", to_string(amount)>>>>, <<>>, "")
            /\ UNCHANGED <<state, contract_info, total_unstaked, audit_funds>>

stake_refunds_excess(sender, funds, amount) ==
    /\ Call("stake", sender, funds, 0, amount, "")
    /\ IF insufficient_funds(funds, amount)
       THEN Return(InsufficientFunds, <<>>, <<>>, "") /\ NoWrite
       ELSE IF is_zero(amount)
       THEN Return(InvalidAmount, <<>>, <<>>, "") /\ NoWrite
       ELSE IF stake_balance(may_load(stakes, sender), amount) > U128Max
       THEN Return(Panic, <<>>, <<>>, "") /\ NoWrite
       ELSE /\ total_staked + amount <= MaxStaked
            /\ stakes' = save(stakes, sender, stake_balance(may_load(stakes, sender), amount))
            /\ total_staked' = total_staked + amount
            /\ token_attached' = attach(token_attached, funds)
            /\ Return(Ok, <<<<"action", "stake">>, <<"staker", sender>>,
                            <<"amount", to_string(amount)>>>>,
                      <<[to_address |-> sender,
                         amount |-> <<Coin(funds[1].denom, funds[1].amount - amount)>>]>>, "")
            /\ UNCHANGED <<state, contract_info, total_unstaked, audit_funds>>

stake(sender, funds, amount) ==
    /\ Call("stake", sender, funds, 0, amount, "")
    /\ IF insufficient_funds(funds, amount)
       THEN Return(InsufficientFunds, <<>>, <<>>, "") /\ NoWrite
       ELSE IF is_zero(amount)
       THEN Return(InvalidAmount, <<>>, <<>>, "") /\ NoWrite
       ELSE IF stake_balance(may_load(stakes, sender), amount) > U128Max
       THEN Return(Panic, <<>>, <<>>, "") /\ NoWrite
       ELSE /\ total_staked + amount <= MaxStaked
            /\ stakes' = save(stakes, sender, stake_balance(may_load(stakes, sender), amount))
            /\ total_staked' = total_staked + amount
            /\ token_attached' = attach(token_attached, funds)
            /\ Return(Ok, <<<<"action", "stake">>, <<"staker", sender>>,
                            <<"amount", to_string(amount)>>>>, <<>>, "")
            /\ UNCHANGED <<state, contract_info, total_unstaked, audit_funds>>

----------------------------------------------------------------------------
(* execute::unstake *)

exceeds_balance_off_by_one(amount, current_stake) == amount > current_stake + 1

exceeds_balance_or_equal(amount, current_stake) == amount >= current_stake

\* amount > current_stake
exceeds_balance(amount, current_stake) == amount > current_stake

unstake_store_always_save(map, sender, new_stake) == save(map, sender, new_stake)

\* if new_stake.is_zero() { STAKES.remove } else { STAKES.save }
unstake_store(map, sender, new_stake) ==
    IF is_zero(new_stake) THEN remove(map, sender) ELSE save(map, sender, new_stake)

bank_msg_whole_stake(sender, amount) ==
    [to_address |-> sender,
     amount |-> <<[denom |-> "token", amount |-> unwrap_or(may_load(stakes, sender), 0)]>>]

\* BankMsg::Send { to_address, amount: vec![Coin { denom: "token", amount }] }
bank_msg(sender, amount) ==
    [to_address |-> sender, amount |-> <<[denom |-> "token", amount |-> amount]>>]

unstake(sender, amount) ==
    LET current_stake == unwrap_or(may_load(stakes, sender), 0)
        new_stake == current_stake - amount
    IN  /\ Call("unstake", sender, <<>>, 0, amount, "")
        /\ IF exceeds_balance(amount, current_stake)
           THEN Return(InsufficientBalance, <<>>, <<>>, "") /\ NoWrite
           ELSE IF new_stake < 0
           THEN Return(Panic, <<>>, <<>>, "") /\ NoWrite    \* Uint128's `-` aborts below zero
           ELSE /\ stakes' = unstake_store(stakes, sender, new_stake)
                /\ total_unstaked' = total_unstaked + amount
                /\ Return(Ok, <<<<"action", "unstake">>, <<"staker", sender>>,
                                <<"amount", to_string(amount)>>>>,
                          <<bank_msg(sender, amount)>>, "")
                /\ UNCHANGED <<state, contract_info, total_staked, token_attached, audit_funds>>

----------------------------------------------------------------------------
(* query *)

\* Api::addr_validate: Some(addr) for a valid address, None otherwise
addr_validate(address) == IF address \in Addrs THEN <<address>> ELSE <<>>

\* query::count, on a stored state: GetCountResponse { count }
GetCountResponse(st) == [count |-> st.count]

\* query::stake, on a validated address: GetStakeResponse { amount }
GetStakeResponse(map, addr) == [amount |-> unwrap_or(may_load(map, addr), 0)]

\* to_json_binary of the two responses (serde_json: i32 as a number, Uint128 as a string)
count_to_json(r) == "{\"count\":" \o to_string(r.count) \o "}"
stake_to_json(r) == "{\"amount\":\"" \o to_string(r.amount) \o "\"}"

query_count_default ==
    /\ Call("get_count", None, <<>>, 0, 0, "")
    /\ IF state = <<>>
       THEN Return(Ok, <<>>, <<>>, count_to_json([count |-> 0]))
       ELSE Return(Ok, <<>>, <<>>, count_to_json(GetCountResponse(state[1])))
    /\ NoWrite

query_count ==
    /\ Call("get_count", None, <<>>, 0, 0, "")
    /\ IF state = <<>>
       THEN Return(NotInitialized, <<>>, <<>>, "")
       ELSE Return(Ok, <<>>, <<>>, count_to_json(GetCountResponse(state[1])))
    /\ NoWrite

query_stake(address) ==
    /\ Call("get_stake", None, <<>>, 0, 0, address)
    /\ IF addr_validate(address) = <<>>
       THEN Return(InvalidAddress, <<>>, <<>>, "")
       ELSE Return(Ok, <<>>, <<>>, stake_to_json(GetStakeResponse(stakes, addr_validate(address)[1])))
    /\ NoWrite

----------------------------------------------------------------------------
(* The contract as a state machine *)

Init ==
    /\ state = <<>>
    /\ stakes = [k \in {} |-> 0]
    /\ contract_info = <<>>
    /\ res = [err |-> Ok, attributes |-> <<>>, messages |-> <<>>, data |-> ""]
    /\ last = [op |-> None, sender |-> None, funds |-> <<>>, count |-> 0,
               amount |-> 0, address |-> ""]
    /\ total_staked = 0
    /\ total_unstaked = 0
    /\ token_attached = 0
    /\ audit_funds = FALSE

Instantiate == \E sender \in Addrs, count \in CountInputs : instantiate(sender, <<>>, count)
Increment == \E sender \in Addrs, overflow_checks \in BOOLEAN : increment(sender, overflow_checks)
Reset == \E sender \in Addrs, count \in CountInputs : reset(sender, count)
Stake == \E sender \in Addrs, funds \in FundsInputs, amount \in Amounts : stake(sender, funds, amount)
Unstake == \E sender \in Addrs, amount \in Amounts : unstake(sender, amount)
QueryCount == query_count
QueryStake == \E address \in AddressStrings : query_stake(address)

Next ==
    \/ Instantiate
    \/ Increment
    \/ Reset
    \/ Stake
    \/ Unstake
    \/ QueryCount
    \/ QueryStake

Spec == Init /\ [][Next]_vars

\* The same machine, keeping the history of attached "token".
InitAudit ==
    /\ state = <<>>
    /\ stakes = [k \in {} |-> 0]
    /\ contract_info = <<>>
    /\ res = [err |-> Ok, attributes |-> <<>>, messages |-> <<>>, data |-> ""]
    /\ last = [op |-> None, sender |-> None, funds |-> <<>>, count |-> 0,
               amount |-> 0, address |-> ""]
    /\ total_staked = 0
    /\ total_unstaked = 0
    /\ token_attached = 0
    /\ audit_funds = TRUE

SpecAudit == InitAudit /\ [][Next]_vars

----------------------------------------------------------------------------
(* Properties *)

RECURSIVE SumOver(_, _)
SumOver(map, keys) ==
    IF keys = {} THEN 0
    ELSE LET k == CHOOSE x \in keys : TRUE IN map[k] + SumOver(map, keys \ {k})

\* sum(stake_balance.values())
SumOfStakes == SumOver(stakes, DOMAIN stakes)

\* The balance GetStake reports for an account: its entry, or 0 when it has none.
BalanceOf(map, addr) == GetStakeResponse(map, addr).amount

\* C1: the sum of all balances equals the total of the successful Stake amounts
\* minus the total of the successful Unstake amounts, and no balance and no sum
\* is negative.
C1_Conservation ==
    /\ SumOfStakes = total_staked - total_unstaked
    /\ SumOfStakes >= 0
    /\ total_staked - total_unstaked >= 0
    /\ \A a \in DOMAIN stakes : stakes[a] >= 0

C1_Witness ==
    /\ total_unstaked > 0
    /\ Cardinality(DOMAIN stakes) >= 2
    /\ SumOfStakes > 0
    /\ last.op = "unstake" /\ res.err = Ok

\* C2: an Unstake of more than the caller's balance (0 without an entry) fails
\* with InsufficientBalance, emits no transfer and changes no balance.
C2_UnstakeTooMuchFails ==
    [][(last'.op = "unstake" /\ last'.amount > BalanceOf(stakes, last'.sender))
        => (res'.err = InsufficientBalance /\ res'.messages = <<>> /\ stakes' = stakes)]_vars

C2_Witness ==
    /\ last.op = "unstake" /\ res.err = InsufficientBalance
    /\ last.sender \in DOMAIN stakes
    /\ last.amount > stakes[last.sender]

\* C3: a Stake whose attached funds are empty, or whose first attached entry is
\* less than the declared amount, fails with InsufficientFunds, creates no entry
\* and changes no balance.
C3_StakeUnderfundedFails ==
    [][(last'.op = "stake"
          /\ (Len(last'.funds) = 0 \/ last'.funds[1].amount < last'.amount))
        => (res'.err = InsufficientFunds /\ stakes' = stakes)]_vars

C3_Witness ==
    /\ last.op = "stake" /\ res.err = InsufficientFunds
    /\ Len(last.funds) > 0
    /\ last.sender \notin DOMAIN stakes

\* C4: every stored entry is strictly positive, and after an account unstakes
\* exactly its full balance its entry is absent and GetStake reports 0.
C4_EntriesPositive ==
    /\ [](\A a \in DOMAIN stakes : stakes[a] > 0)
    /\ [][(last'.op = "unstake" /\ last'.amount = BalanceOf(stakes, last'.sender))
            => (/\ res'.err = Ok
                /\ last'.sender \notin DOMAIN stakes'
                /\ BalanceOf(stakes', last'.sender) = 0)]_vars

C4_Witness ==
    /\ last.op = "unstake" /\ res.err = Ok /\ last.amount > 0
    /\ last.sender \notin DOMAIN stakes
    /\ DOMAIN stakes /= {}

\* C5: on an initialized ledger, Reset by a caller other than the owner fails
\* with Unauthorized and leaves count and owner unchanged.
C5_ResetByNonOwnerFails ==
    [][(last'.op = "reset" /\ state /= <<>> /\ last'.sender /= state[1].owner)
        => (res'.err = Unauthorized /\ state' = state)]_vars

C5_Witness ==
    /\ last.op = "reset" /\ res.err = Unauthorized
    /\ state /= <<>> /\ last.count /= state[1].count

\* C6: on an initialized ledger, Reset by the owner succeeds and GetCount then
\* returns the requested count, whatever the previous count.
C6_ResetByOwnerSetsCount ==
    [][(last'.op = "reset" /\ state /= <<>> /\ last'.sender = state[1].owner)
        => (/\ res'.err = Ok
            /\ state' /= <<>>
            /\ GetCountResponse(state'[1]).count = last'.count)]_vars

C6_Witness ==
    /\ last.op = "reset" /\ res.err = Ok
    /\ state /= <<>> /\ state[1].count = I32Min

\* C7: once the ledger is initialized the owner never changes, whatever calls
\* (instantiate included) follow.
C7_OwnerNeverChanges ==
    [][state /= <<>> => (state' /= <<>> /\ state'[1].owner = state[1].owner)]_vars

\* The error the interface table names for a second Initialize.
AlreadyInitialized == "AlreadyInitialized"

\* C8: Initialize on an initialized ledger fails with AlreadyInitialized and
\* leaves count and owner unchanged; on an uninitialized ledger it succeeds with
\* owner = creator and count = initial_count.
C8_InitializeOnlyOnce ==
    [][last'.op = "instantiate"
        => IF state /= <<>>
           THEN res'.err = AlreadyInitialized /\ state' = state
           ELSE res'.err = Ok
                /\ state' = <<[count |-> last'.count, owner |-> last'.sender]>>]_vars

\* C9 as stated: a Stake with amount 0 fails with InvalidAmount whatever funds
\* are attached, none included, and creates no entry.
C9_ZeroStakeInvalidAmount ==
    [][(last'.op = "stake" /\ last'.amount = 0)
        => (res'.err = InvalidAmount /\ DOMAIN stakes' = DOMAIN stakes)]_vars

\* C9 amended: a Stake with amount 0 creates no entry and changes no balance; it
\* fails with InvalidAmount when at least one fund entry is attached and with
\* InsufficientFunds when none is.
C9_ZeroStakeFails ==
    [][(last'.op = "stake" /\ last'.amount = 0)
        => (/\ res'.err = (IF Len(last'.funds) = 0 THEN InsufficientFunds ELSE InvalidAmount)
            /\ stakes' = stakes)]_vars

C9_Witness ==
    /\ last.op = "stake" /\ last.amount = 0
    /\ res.err = InvalidAmount
    /\ Len(last.funds) > 0

\* C10: a successful Unstake lowers the caller's balance by exactly the amount
\* and produces exactly one transfer, to the caller, of that amount of "token".
C10_UnstakeEffect ==
    [][(last'.op = "unstake" /\ res'.err = Ok)
        => (/\ BalanceOf(stakes', last'.sender) = BalanceOf(stakes, last'.sender) - last'.amount
            /\ Len(res'.messages) = 1
            /\ res'.messages[1].to_address = last'.sender
            /\ Len(res'.messages[1].amount) = 1
            /\ res'.messages[1].amount[1].amount = last'.amount
            /\ res'.messages[1].amount[1].denom = "token")]_vars

C10_Witness ==
    /\ last.op = "unstake" /\ res.err = Ok
    /\ last.amount > 0
    /\ last.sender \in DOMAIN stakes
    /\ Len(res.messages) = 1

\* The calls that can write: instantiate and the four execute messages.
MutatingOps == {"instantiate", "increment", "reset", "stake", "unstake"}

\* C11: when Initialize, Increment, Reset, Stake or Unstake does not succeed (an
\* error is returned, or the call aborts), count, owner and the whole stake mapping
\* are what they were before the call and no transfer is emitted.
C11_FailureChangesNothing ==
    [][(last'.op \in MutatingOps /\ res'.err /= Ok)
        => (/\ state' = state
            /\ stakes' = stakes
            /\ contract_info' = contract_info
            /\ res'.messages = <<>>)]_vars

C11_Witness ==
    /\ last.op = "reset" /\ res.err = Unauthorized
    /\ state /= <<>> /\ last.count /= state[1].count
    /\ DOMAIN stakes /= {}

\* C12 as stated: on an initialized ledger Increment succeeds for every caller
\* and raises count by exactly 1, leaving owner unchanged.
C12_IncrementAlwaysAddsOne ==
    [][(last'.op = "increment" /\ state /= <<>>)
        => (/\ res'.err = Ok
            /\ state' /= <<>>
            /\ state[1].count < I32Max
            /\ state'[1].count = state[1].count + 1
            /\ state'[1].owner = state[1].owner)]_vars

\* C12 amended: on an initialized ledger whose count is below the largest i32,
\* Increment succeeds for every caller (owner or not) and raises count by exactly
\* 1, leaving owner unchanged.
C12_IncrementAddsOne ==
    [][(last'.op = "increment" /\ state /= <<>> /\ state[1].count < I32Max)
        => (/\ res'.err = Ok
            /\ state' /= <<>>
            /\ state'[1].count = state[1].count + 1
            /\ state'[1].owner = state[1].owner)]_vars

C12_Witness ==
    /\ last.op = "increment" /\ res.err = Ok
    /\ state /= <<>> /\ last.sender /= state[1].owner
    /\ state[1].count = 18

\* C13: while the ledger has never been initialized, Increment, Reset and GetCount
\* fail with NotInitialized and create no state record.
C13_NotInitialized ==
    [][(last'.op \in {"increment", "reset", "get_count"} /\ state = <<>>)
        => (res'.err = NotInitialized /\ res'.data = "" /\ state' = <<>>)]_vars

C13_Witness ==
    /\ state = <<>> /\ res.err = NotInitialized
    /\ last.op = "get_count"
    /\ DOMAIN stakes /= {}

\* C14: a successful Stake raises the caller's balance by exactly the declared
\* amount, whatever was attached, creates the entry when absent, and GetStake
\* reports the new balance.
C14_StakeEffect ==
    [][(last'.op = "stake" /\ res'.err = Ok)
        => (/\ last'.sender \in DOMAIN stakes'
            /\ stakes'[last'.sender] = BalanceOf(stakes, last'.sender) + last'.amount
            /\ GetStakeResponse(stakes', last'.sender).amount
                   = BalanceOf(stakes, last'.sender) + last'.amount)]_vars

C14_Witness ==
    /\ last.op = "stake" /\ res.err = Ok
    /\ last.funds[1].amount > last.amount
    /\ stakes[last.sender] > last.amount

\* C15: only a successful Unstake produces a transfer: every other call, and
\* every failing Unstake, returns no message.
C15_OnlyUnstakeTransfers ==
    res.messages /= <<>> => (last.op = "unstake" /\ res.err = Ok)

C15_Witness ==
    /\ last.op = "stake" /\ res.err = Ok
    /\ last.funds[1].amount > last.amount
    /\ res.messages = <<>>
    /\ total_unstaked > 0

\* C17: in every reachable state, initialized or not, every account can unstake
\* every amount from 1 up to its balance: the call is possible and succeeds.
C17_WithdrawalNeverBlocked ==
    \A a \in Addrs : \A amount \in 1..BalanceOf(stakes, a) :
        ENABLED (unstake(a, amount) /\ res'.err = Ok)

C17_Witness ==
    /\ state = <<>>
    /\ last.op = "unstake" /\ res.err = Ok /\ last.amount > 0
    /\ Cardinality(DOMAIN stakes) >= 2

\* C18: Stake and Unstake change only the caller's entry and leave count and
\* owner alone; Increment, Reset and Initialize leave the stake mapping alone.
C18_Frame ==
    [][/\ last'.op \in {"stake", "unstake"}
          => /\ state' = state
             /\ \/ stakes' = stakes
                \/ /\ DOMAIN stakes' \ {last'.sender} = DOMAIN stakes \ {last'.sender}
                   /\ \A a \in DOMAIN stakes \ {last'.sender} : stakes'[a] = stakes[a]
       /\ last'.op \in {"increment", "reset", "instantiate"}
          => stakes' = stakes]_vars

C18_Witness ==
    /\ last.op = "stake" /\ res.err = Ok
    /\ \E a \in DOMAIN stakes : a /= last.sender
    /\ state /= <<>>

\* C19: Unstake of amount 0 succeeds for every caller, with or without an entry:
\* the stake mapping is unchanged and one transfer of amount 0 to the caller is
\* emitted.
C19_UnstakeZero ==
    [][(last'.op = "unstake" /\ last'.amount = 0)
        => (/\ res'.err = Ok
            /\ stakes' = stakes
            /\ res'.messages =
                   <<[to_address |-> last'.sender,
                      amount |-> <<[denom |-> "token", amount |-> 0]>>]>>)]_vars

C19_Witness ==
    /\ last.op = "unstake" /\ last.amount = 0 /\ res.err = Ok
    /\ last.sender \notin DOMAIN stakes
    /\ Len(res.messages) = 1

\* C20: the counter never wraps: a successful Increment leaves count strictly
\* greater than before, and at the largest i32 Increment fails with count
\* unchanged.
C20_CounterNeverWraps ==
    [][(last'.op = "increment" /\ state /= <<>>)
        => (/\ (res'.err = Ok => (state' /= <<>> /\ state'[1].count > state[1].count))
            /\ (state[1].count = I32Max => (res'.err /= Ok /\ state' = state)))]_vars

\* C16: the total amount of "token" authorized for release never exceeds the
\* total amount of "token" attached to successful Stake calls.
C16_Solvency == total_unstaked <= token_attached

====
